---------------------------- MODULE Spec2Model ----------------------------
(***************************************************************************)
(* Model of src/main.py (Student Results API): the header normaliser, the  *)
(* column locator, the row flattener and the aggregating request handlers. *)
(*                                                                         *)
(* A Python str is a sequence of one-character strings, so that strip(),   *)
(* lower(), repr(), re.sub() and the substring test `in` are computed, not *)
(* assumed.  The characters are those of U+0001..U+00FF; the tables below  *)
(* list what str.isspace(), str.lower() and repr() do on that range.       *)
(* A spreadsheet cell is a record: text, a whole number >= 0 or missing    *)
(* (NaN).  A column label is text, or a whole number read from a numeric   *)
(* header cell.  An average is a double, computed with the roundings of    *)
(* IEEE-754 binary64 arithmetic, until round(x, 2) turns it into a whole   *)
(* number of hundredths.                                                   *)
(* A handler is modelled up to its return or raise: what it returns is the *)
(* Python value, before the serving layer encodes it.                      *)
(***************************************************************************)
EXTENDS Integers, Sequences, FiniteSets, TLC

VARIABLES
    sheet,  \* the DataFrame load_excel() parses from students.xlsx
    call,   \* the operation being served and its arguments
    ret,    \* what that operation returned or raised
    local   \* the DataFrame object each request in progress holds

vars == <<sheet, call, ret, local>>

---------------------------------------------------------------------------
(* Characters and Python str operations *)

UpperLetters == <<"A","B","C","D","E","F","G","H","I","J","K","L","M",
                  "N","O","P","Q","R","S","T","U","V","W","X","Y","Z">>

LowerLetters == <<"a","b","c","d","e","f","g","h","i","j","k","l","m",
                  "n","o","p","q","r","s","t","u","v","w","x","y","z">>

DigitChars == <<"0","1","2","3","4","5","6","7","8","9">>

\* the characters str.strip() removes: those for which str.isspace() holds
Whitespace == {"\t", "\n", "", "\f", "\r", "", "", "", "", " ", "",
    " "}

\* the letters beyond A-Z that str.lower() changes, and what it changes them to
Latin1Upper == <<"À", "Á", "Â", "Ã", "Ä", "Å", "Æ", "Ç", "È", "É", "Ê",
    "Ë", "Ì", "Í", "Î", "Ï", "Ð", "Ñ", "Ò", "Ó", "Ô", "Õ", "Ö", "Ø", "Ù",
    "Ú", "Û", "Ü", "Ý", "Þ">>

Latin1Lower == <<"à", "á", "â", "ã", "ä", "å", "æ", "ç", "è", "é", "ê",
    "ë", "ì", "í", "î", "ï", "ð", "ñ", "ò", "ó", "ô", "õ", "ö", "ø", "ù",
    "ú", "û", "ü", "ý", "þ">>

\* the characters repr() writes as an escape, and the escape of each
Escaped == <<"", "", "", "", "", "", "", "", "\t", "\n", "", "\f",
    "\r", "", "", "", "", "", "", "", "", "", "", "", "", "",
    "", "", "", "", "", "\\", "", "", "", "", "", "", "", "",
    "", "", "", "", "", "", "", "", "", "", "", "", "", "",
    "", "", "", "", "", "", "", "", "", "", "", " ", "­">>

Escapes == <<<<"\\", "x", "0", "1">>, <<"\\", "x", "0", "2">>,
    <<"\\", "x", "0", "3">>, <<"\\", "x", "0", "4">>,
    <<"\\", "x", "0", "5">>, <<"\\", "x", "0", "6">>,
    <<"\\", "x", "0", "7">>, <<"\\", "x", "0", "8">>, <<"\\", "t">>,
    <<"\\", "n">>, <<"\\", "x", "0", "b">>, <<"\\", "x", "0", "c">>,
    <<"\\", "r">>, <<"\\", "x", "0", "e">>, <<"\\", "x", "0", "f">>,
    <<"\\", "x", "1", "0">>, <<"\\", "x", "1", "1">>,
    <<"\\", "x", "1", "2">>, <<"\\", "x", "1", "3">>,
    <<"\\", "x", "1", "4">>, <<"\\", "x", "1", "5">>,
    <<"\\", "x", "1", "6">>, <<"\\", "x", "1", "7">>,
    <<"\\", "x", "1", "8">>, <<"\\", "x", "1", "9">>,
    <<"\\", "x", "1", "a">>, <<"\\", "x", "1", "b">>,
    <<"\\", "x", "1", "c">>, <<"\\", "x", "1", "d">>,
    <<"\\", "x", "1", "e">>, <<"\\", "x", "1", "f">>, <<"\\", "\\">>,
    <<"\\", "x", "7", "f">>, <<"\\", "x", "8", "0">>,
    <<"\\", "x", "8", "1">>, <<"\\", "x", "8", "2">>,
    <<"\\", "x", "8", "3">>, <<"\\", "x", "8", "4">>,
    <<"\\", "x", "8", "5">>, <<"\\", "x", "8", "6">>,
    <<"\\", "x", "8", "7">>, <<"\\", "x", "8", "8">>,
    <<"\\", "x", "8", "9">>, <<"\\", "x", "8", "a">>,
    <<"\\", "x", "8", "b">>, <<"\\", "x", "8", "c">>,
    <<"\\", "x", "8", "d">>, <<"\\", "x", "8", "e">>,
    <<"\\", "x", "8", "f">>, <<"\\", "x", "9", "0">>,
    <<"\\", "x", "9", "1">>, <<"\\", "x", "9", "2">>,
    <<"\\", "x", "9", "3">>, <<"\\", "x", "9", "4">>,
    <<"\\", "x", "9", "5">>, <<"\\", "x", "9", "6">>,
    <<"\\", "x", "9", "7">>, <<"\\", "x", "9", "8">>,
    <<"\\", "x", "9", "9">>, <<"\\", "x", "9", "a">>,
    <<"\\", "x", "9", "b">>, <<"\\", "x", "9", "c">>,
    <<"\\", "x", "9", "d">>, <<"\\", "x", "9", "e">>,
    <<"\\", "x", "9", "f">>, <<"\\", "x", "a", "0">>,
    <<"\\", "x", "a", "d">>>>

Range(s) == {s[i] : i \in DOMAIN s}

UpperSet == Range(UpperLetters)
LowerSet == Range(LowerLetters)
DigitSet == Range(DigitChars)

IsUpper(c) == c \in UpperSet
IsLower(c) == c \in LowerSet
IsDigit(c) == c \in DigitSet

\* the character class [a-zA-Z0-9] of the pattern on line 44
IsAlnum(c) == IsUpper(c) \/ IsLower(c) \/ IsDigit(c)

\* the characters str.strip() removes
IsSpace(c) == c \in Whitespace

\* str.lower() on each character it changes
LowerOf ==
    [c \in UpperSet \cup Range(Latin1Upper) |->
        IF c \in UpperSet
        THEN LowerLetters[CHOOSE i \in DOMAIN UpperLetters : UpperLetters[i] = c]
        ELSE Latin1Lower[CHOOSE i \in DOMAIN Latin1Upper : Latin1Upper[i] = c]]

ToLower(c) == IF c \in DOMAIN LowerOf THEN LowerOf[c] ELSE c

\* key[0].upper() on line 45: key[0] is a character re.sub left in place
ToUpper(c) ==
    IF IsLower(c)
    THEN UpperLetters[CHOOSE i \in DOMAIN LowerLetters : LowerLetters[i] = c]
    ELSE c

\* str.lower()
Lower(s) == [i \in DOMAIN s |-> ToLower(s[i])]

\* needle in hay, for two str
Contains(hay, needle) ==
    \E i \in 0..(Len(hay) - Len(needle)) :
        SubSeq(hay, i + 1, i + Len(needle)) = needle

RECURSIVE LStrip(_)
LStrip(s) ==
    IF s = <<>> THEN <<>>
    ELSE IF IsSpace(Head(s)) THEN LStrip(Tail(s)) ELSE s

RECURSIVE RStrip(_)
RStrip(s) ==
    IF s = <<>> THEN <<>>
    ELSE IF IsSpace(s[Len(s)]) THEN RStrip(SubSeq(s, 1, Len(s) - 1)) ELSE s

\* str.strip()
Strip(s) == RStrip(LStrip(s))

\* re.sub(r"[^a-zA-Z0-9]+", "", key): every run of other characters is removed
ReSubNonAlnum(s) == SelectSeq(s, IsAlnum)

RECURSIVE Concat(_)
Concat(parts) == IF parts = <<>> THEN <<>> ELSE Head(parts) \o Concat(Tail(parts))

\* repr() on each character it writes as an escape
EscapeOf ==
    [c \in Range(Escaped) |-> Escapes[CHOOSE i \in DOMAIN Escaped : Escaped[i] = c]]

\* repr(s) of a str: in single quotes, or in double quotes when s holds a
\* single quote and no double quote; the quote in use and the characters of
\* the table are escaped
ReprStr(s) ==
    LET quote == IF "'" \in Range(s) /\ "\"" \notin Range(s) THEN "\"" ELSE "'"
        ReprChar(c) == IF c = quote THEN <<"\\", c>>
                       ELSE IF c \in DOMAIN EscapeOf THEN EscapeOf[c]
                       ELSE <<c>>
    IN  <<quote>> \o Concat([i \in DOMAIN s |-> ReprChar(s[i])]) \o <<quote>>

\* str(n) of an int
RECURSIVE IntToStr(_)
IntToStr(n) ==
    IF n < 0 THEN <<"-">> \o IntToStr(0 - n)
    ELSE IF n < 10 THEN <<DigitChars[n + 1]>>
    ELSE IntToStr(n \div 10) \o <<DigitChars[(n % 10) + 1]>>

---------------------------------------------------------------------------
(* Header normaliser *)

\* a plausible slip: the first character is capitalised before the
\* other characters are removed
normalize_key_CapFirst(key) ==
    LET k == Strip(key)
    IN  IF k = <<>> THEN k
        ELSE ReSubNonAlnum(<<ToUpper(k[1])>> \o Tail(k))

normalize_key(key) ==
    LET k == ReSubNonAlnum(Strip(key))
    IN  IF k = <<>> THEN k ELSE <<ToUpper(k[1])>> \o Tail(k)

---------------------------------------------------------------------------
(* Cells, column identifiers and the DataFrame *)

\* cell values: text, a number, or the missing marker NaN
Str(s) == [kind |-> "str", s |-> s, n |-> 0]
Num(n) == [kind |-> "num", s |-> <<>>, n |-> n]
NaN == [kind |-> "nan", s |-> <<>>, n |-> 0]

\* a two-level column identifier (a tuple) and a single-level one (a label);
\* top and sub are str(label), topInt and subInt tell that the label is an
\* int and not a str
Col2(top, sub) ==
    [tuple |-> TRUE, top |-> top, sub |-> sub, topInt |-> FALSE, subInt |-> FALSE]
Col1(label) ==
    [tuple |-> FALSE, top |-> label, sub |-> <<>>, topInt |-> FALSE, subInt |-> FALSE]

\* the column (top, n) whose sub-label is the int n
Col2Int(top, n) ==
    [tuple |-> TRUE, top |-> top, sub |-> IntToStr(n), topInt |-> FALSE, subInt |-> TRUE]

IsText(cell) == cell.kind = "str"
HasText(cells) == \E i \in DOMAIN cells : IsText(cells[i])

\* the dtype read_excel gives a column: object when it holds text or no cell
\* at all, float64 when a number is missing, int64 when every cell is a number
ColumnDtype(cells) ==
    IF cells = <<>> \/ HasText(cells) THEN "object"
    ELSE IF \E i \in DOMAIN cells : cells[i].kind = "nan" THEN "float64"
    ELSE "int64"

\* a DataFrame: its columns in order, its rows in order, rows[r][c] being the
\* cell of row r under column c, and the dtype of each column; multi is
\* load_excel's second result
DataFrame(multi, cols, rows) ==
    [multi |-> multi, cols |-> cols, rows |-> rows,
     dtypes |-> [c \in DOMAIN cols |->
                    ColumnDtype([r \in DOMAIN rows |-> rows[r][c]])]]

\* the keywords the code searches the labels for
kwUnnamed == <<"U","n","n","a","m","e","d">>
kwRoll == <<"r","o","l","l">>
kwDept == <<"d","e","p","t">>
kwCrt == <<"c","r","t">>
kwNan == <<"n","a","n">>
kwTotal == <<"T","o","t","a","l">>

\* what a call gives back: a value, or the exception it raised; status is the
\* status_code of an HTTPException and 0 when there is none
Returns(v) == [ok |-> TRUE, value |-> v, exc |-> "", status |-> 0]
Raises(exc, status) == [ok |-> FALSE, value |-> <<>>, exc |-> exc, status |-> status]

---------------------------------------------------------------------------
(* Row flattener *)

\* a slip: the blank sub-label is not recognised, only the placeholder
FlatKey_NoBlank(col) ==
    IF ~col.tuple THEN Returns(normalize_key(col.top))
    ELSE IF Contains(col.sub, kwUnnamed) THEN Returns(normalize_key(col.top))
    ELSE IF col.subInt
         THEN Raises("AttributeError: 'int' object has no attribute 'strip'", 0)
    ELSE Returns(normalize_key(col.top) \o <<"_">> \o normalize_key(col.sub))

\* the key convert_to_flat_json gives a column (lines 54-61); sub.strip() on
\* line 56 is reached when str(sub) has no "Unnamed" and needs sub to be a str
FlatKey(col) ==
    IF ~col.tuple THEN Returns(normalize_key(col.top))
    ELSE IF Contains(col.sub, kwUnnamed) THEN Returns(normalize_key(col.top))
    ELSE IF col.subInt
         THEN Raises("AttributeError: 'int' object has no attribute 'strip'", 0)
    ELSE IF Strip(col.sub) = <<>> THEN Returns(normalize_key(col.top))
    ELSE Returns(normalize_key(col.top) \o <<"_">> \o normalize_key(col.sub))

\* a Python dict is the sequence of its items in insertion order;
\* d[k] = v replaces the value of a key already present, in place
DictHas(d, k) == \E i \in DOMAIN d : d[i].k = k

\* a slip: a key already present keeps its first value
DictSet_KeepFirst(d, k, v) ==
    IF DictHas(d, k) THEN d ELSE Append(d, [k |-> k, v |-> v])

DictSet(d, k, v) ==
    IF DictHas(d, k)
    THEN [i \in DOMAIN d |-> IF d[i].k = k THEN [k |-> k, v |-> v] ELSE d[i]]
    ELSE Append(d, [k |-> k, v |-> v])

DictGet(d, k) == d[CHOOSE i \in DOMAIN d : d[i].k = k].v

\* position of the first entry that passes a test, 0 when none does;
\* passes[i] tells whether entry i passes
FirstIndex(passes) ==
    IF \E i \in DOMAIN passes : passes[i]
    THEN CHOOSE i \in DOMAIN passes :
            passes[i] /\ \A j \in 1..(i - 1) : ~passes[j]
    ELSE 0

\* the inner loop of convert_to_flat_json over the first n columns: the
\* record so far, or the exception a column's key raised
RECURSIVE FlattenRow(_, _, _)
FlattenRow(cols, row, n) ==
    IF n = 0 THEN Returns(<<>>)
    ELSE LET student == FlattenRow(cols, row, n - 1)
             key == FlatKey(cols[n])
         IN  IF ~student.ok THEN student
             ELSE IF ~key.ok THEN key
             ELSE Returns(DictSet(student.value, key.value, row[n]))

\* the list of records, or the exception raised while the first row that
\* raises one was flattened
convert_to_flat_json(df, multi) ==
    LET students == [r \in DOMAIN df.rows |->
                        FlattenRow(df.cols, df.rows[r], Len(df.cols))]
        failed == FirstIndex([r \in DOMAIN students |-> ~students[r].ok])
    IN  IF failed # 0 THEN students[failed]
        ELSE Returns([r \in DOMAIN students |-> students[r].value])

---------------------------------------------------------------------------
(* Column locator *)

\* a slip: only the top label of a tuple is searched
IsRollCol_TopOnly(col) == Contains(Lower(col.top), kwRoll)

\* the test of lines 70-75 on one column
IsRollCol(col) ==
    IF col.tuple
    THEN Contains(Lower(col.top), kwRoll) \/ Contains(Lower(col.sub), kwRoll)
    ELSE Contains(Lower(col.top), kwRoll)

\* the position of the column returned, or the HTTPException of line 76
find_roll_col(df) ==
    LET i == FirstIndex([c \in DOMAIN df.cols |-> IsRollCol(df.cols[c])])
    IN  IF i = 0
        THEN Raises("HTTPException: Roll No column not found in Excel!", 500)
        ELSE Returns(i)

\* str(col): str(label) of a single label, or the repr of the tuple of two
\* labels, a str label in quotes and an int label in digits
StrCol(col) ==
    IF col.tuple
    THEN <<"(">> \o (IF col.topInt THEN col.top ELSE ReprStr(col.top))
         \o <<",", " ">> \o (IF col.subInt THEN col.sub ELSE ReprStr(col.sub))
         \o <<")">>
    ELSE col.top

\* next(col for col in df.columns if kw in str(col).lower()), lines 167, 181, 236
NextColWith(df, kw) ==
    LET i == FirstIndex([c \in DOMAIN df.cols |->
                            Contains(Lower(StrCol(df.cols[c])), kw)])
    IN  IF i = 0 THEN Raises("StopIteration", 0) ELSE Returns(i)

\* the columns of lines 198 and 257, as positions in column order
PlatformCols(df, platform) ==
    LET Located(i) == df.cols[i].tuple
                      /\ Contains(Lower(df.cols[i].top), Lower(platform))
    IN  SelectSeq([i \in DOMAIN df.cols |-> i], Located)

---------------------------------------------------------------------------
(* Row filter *)

\* astype(str) on one cell of a column of the given dtype: str(value), a
\* number of a float64 column being a float and a missing cell reading "nan"
AsTypeStr(cell, dtype) ==
    CASE cell.kind = "str" -> cell.s
      [] cell.kind = "nan" -> kwNan
      [] cell.kind = "num" ->
            IF dtype = "float64" THEN IntToStr(cell.n) \o <<".", "0">>
            ELSE IntToStr(cell.n)

\* df[c].astype(str).str.lower() == wanted.lower(), on one cell
CellMatches(cell, dtype, wanted) == Lower(AsTypeStr(cell, dtype)) = Lower(wanted)

\* df[df[c].astype(str).str.lower() == wanted.lower()]: the rows kept, in
\* order; the columns keep their dtypes
FilterRows(df, c, wanted) ==
    LET Keep(row) == CellMatches(row[c], df.dtypes[c], wanted)
    IN  [df EXCEPT !.rows = SelectSeq(df.rows, Keep)]

---------------------------------------------------------------------------
(* Whole numbers of any size *)

\* A whole number is the sequence of its digits in base 2^15, the most
\* significant first and not 0; no digit at all is the number 0.
LimbBits == 15
Limb == 32768

PowersOf2 == <<1, 2, 4, 8, 16, 32, 64, 128, 256, 512, 1024, 2048, 4096,
               8192, 16384, 32768>>

\* 2^k for k in 0..15
Pow2(k) == PowersOf2[k + 1]

Front(s) == SubSeq(s, 1, Len(s) - 1)
Last(s) == s[Len(s)]

RECURSIVE BigOfNat(_)
BigOfNat(n) == IF n = 0 THEN <<>> ELSE BigOfNat(n \div Limb) \o <<n % Limb>>

RECURSIVE NatOfBig(_)
NatOfBig(a) == IF a = <<>> THEN 0 ELSE Limb * NatOfBig(Front(a)) + Last(a)

RECURSIVE BigTrim(_)
BigTrim(a) == IF a # <<>> /\ Head(a) = 0 THEN BigTrim(Tail(a)) ELSE a

\* the number of binary digits of a
BigBitLen(a) ==
    IF a = <<>> THEN 0
    ELSE LimbBits * (Len(a) - 1)
         + (CHOOSE k \in 1..LimbBits : Pow2(k - 1) <= a[1] /\ a[1] < Pow2(k))

\* a + b + carry
RECURSIVE BigAdd(_, _, _)
BigAdd(a, b, carry) ==
    IF a = <<>> /\ b = <<>> THEN BigOfNat(carry)
    ELSE LET s == (IF a = <<>> THEN 0 ELSE Last(a))
                  + (IF b = <<>> THEN 0 ELSE Last(b)) + carry
         IN  BigAdd(IF a = <<>> THEN a ELSE Front(a),
                    IF b = <<>> THEN b ELSE Front(b), s \div Limb) \o <<s % Limb>>

\* a * k + carry, for k up to 2^15
RECURSIVE BigMulSmall(_, _, _)
BigMulSmall(a, k, carry) ==
    IF a = <<>> THEN BigOfNat(carry)
    ELSE LET p == Last(a) * k + carry
         IN  BigMulSmall(Front(a), k, p \div Limb) \o <<p % Limb>>

\* quotient and remainder of a by k, for k in 1..2^15; r is the remainder
\* carried in from the digits before
RECURSIVE BigDivSmall(_, _, _)
BigDivSmall(a, k, r) ==
    IF a = <<>> THEN [q |-> <<>>, r |-> r]
    ELSE LET cur == r * Limb + Head(a)
             rest == BigDivSmall(Tail(a), k, cur % k)
         IN  [q |-> <<cur \div k>> \o rest.q, r |-> rest.r]

\* a * 2^s
BigShiftLeft(a, s) ==
    BigTrim(BigMulSmall(a, Pow2(s % LimbBits), 0)) \o [i \in 1..(s \div LimbBits) |-> 0]

\* a / 2^s rounded to the nearest whole number, a tie going to the even one;
\* sticky tells that a stands for a value slightly above a
BigShiftRightRound(a, s, sticky) ==
    IF s = 0 THEN a
    ELSE LET w == (s - 1) \div LimbBits
             keep == IF w >= Len(a) THEN <<>> ELSE SubSeq(a, 1, Len(a) - w)
             lost == IF w >= Len(a) THEN a ELSE SubSeq(a, Len(a) - w + 1, Len(a))
             d == BigDivSmall(keep, Pow2((s - 1) % LimbBits), 0)
             h == BigDivSmall(d.q, 2, 0)
             q == BigTrim(h.q)
             below == sticky \/ d.r # 0 \/ \E i \in DOMAIN lost : lost[i] # 0
             odd == q # <<>> /\ Last(q) % 2 = 1
         IN  IF h.r = 1 /\ (below \/ odd) THEN BigAdd(q, <<>>, 1) ELSE q

---------------------------------------------------------------------------
(* Arithmetic on doubles, NaN, and round(x, 2) in hundredths *)

\* A finite double >= 0 is m * 2^e with m of exactly 53 binary digits
\* (0.0 has no digit and e = 0); or it is NaN.
MantissaBits == 53

Float(m, e) == [nan |-> FALSE, m |-> m, e |-> e]
FloatNaN == [nan |-> TRUE, m |-> <<>>, e |-> 0]
FloatZero == Float(<<>>, 0)

\* the double nearest to a * 2^e, a tie going to the even mantissa
FloatOf(a, e, sticky) ==
    LET n == BigBitLen(a)
        r == BigShiftRightRound(a, n - MantissaBits, sticky)
    IN  IF a = <<>> THEN FloatZero
        ELSE IF n <= MantissaBits
             THEN Float(BigShiftLeft(a, MantissaBits - n), e - (MantissaBits - n))
        ELSE IF BigBitLen(r) > MantissaBits
             THEN Float(BigTrim(BigDivSmall(r, 2, 0).q), e + n - MantissaBits + 1)
        ELSE Float(r, e + n - MantissaBits)

\* float(n) for a whole number n >= 0
FromInt(n) == FloatOf(BigOfNat(n), 0, FALSE)

\* x / k for a whole number k in 1..2^15
FDivInt(x, k) ==
    IF x.nan THEN FloatNaN
    ELSE LET t == 2 + LimbBits
             d == BigDivSmall(BigShiftLeft(x.m, t), k, 0)
         IN  FloatOf(BigTrim(d.q), x.e - t, d.r # 0)

\* x + y
FAdd(x, y) ==
    IF x.nan \/ y.nan THEN FloatNaN
    ELSE IF x.m = <<>> THEN y
    ELSE IF y.m = <<>> THEN x
    ELSE LET e == IF x.e < y.e THEN x.e ELSE y.e
         IN  FloatOf(BigAdd(BigShiftLeft(x.m, x.e - e), BigShiftLeft(y.m, y.e - e), 0),
                     e, FALSE)

\* x * k for a whole number k up to 2^15
FMulInt(x, k) ==
    IF x.nan THEN FloatNaN ELSE FloatOf(BigTrim(BigMulSmall(x.m, k, 0)), x.e, FALSE)

\* sum(v) of a list of doubles: 0 + v[0] + v[1] + ..., from the left
RECURSIVE FSum(_)
FSum(v) == IF v = <<>> THEN FloatZero ELSE FAdd(FSum(Front(v)), Last(v))

\* the whole number nearest to a * 2^e, a tie going to the even one
Rint(a, e) ==
    IF e >= 0 THEN NatOfBig(BigShiftLeft(a, e))
    ELSE NatOfBig(BigShiftRightRound(a, 0 - e, FALSE))

\* a number of hundredths (the double nearest to h / 100), or NaN
Hundredths(h) == [nan |-> FALSE, h |-> h]
HundredthsNaN == [nan |-> TRUE, h |-> 0]

\* round(x, 2) of a numpy.float64: rint(x * 100) / 100
RoundNp(x) ==
    IF x.nan THEN HundredthsNaN
    ELSE LET y == FMulInt(x, 100) IN Hundredths(Rint(y.m, y.e))

\* round(x, 2) of a Python float: the hundredth nearest to the value x holds,
\* a tie going to the even one
RoundPy(x) ==
    IF x.nan THEN HundredthsNaN
    ELSE Hundredths(Rint(BigTrim(BigMulSmall(x.m, 100, 0)), x.e))

\* the cells of column c, in row order
Column(df, c) == [r \in DOMAIN df.rows |-> df.rows[r][c]]

RECURSIVE SumNums(_)
SumNums(cells) ==
    IF cells = <<>> THEN 0
    ELSE (IF Head(cells).kind = "num" THEN Head(cells).n ELSE 0) + SumNums(Tail(cells))

CountNums(cells) == Cardinality({i \in DOMAIN cells : cells[i].kind = "num"})

\* a slip: a missing cell counts as a 0 in the mean
SeriesMean_ZeroFill(cells) ==
    IF cells = <<>> THEN FloatNaN ELSE FDivInt(FromInt(SumNums(cells)), Len(cells))

\* Series.mean() of a column without text: the sum of the cells present
\* divided by their number, and NaN when no cell is present
SeriesMean(cells) ==
    IF CountNums(cells) = 0 THEN FloatNaN
    ELSE FDivInt(FromInt(SumNums(cells)), CountNums(cells))

\* sum(v) / len(v) over the cells of one row: a missing cell makes it NaN
ListMean(cells) ==
    IF \E i \in DOMAIN cells : cells[i].kind = "nan" THEN FloatNaN
    ELSE FDivInt(FromInt(SumNums(cells)), Len(cells))

---------------------------------------------------------------------------
(* Request handlers *)

\* students.xlsx: present or not, and what read_excel parses from it
File(exists, multi, cols, rows) ==
    [exists |-> exists, multi |-> multi, cols |-> cols, rows |-> rows]

NoFile == File(FALSE, FALSE, <<>>, <<>>)

\* load_excel(): the file is parsed anew on every call
load_excel(file) ==
    IF ~file.exists
    THEN Raises("FileNotFoundError: Excel file not found!", 0)
    ELSE Returns(DataFrame(file.multi, file.cols, file.rows))

\* `except Exception as e: raise HTTPException(status_code=500, detail=str(e))`:
\* whatever was raised inside the try block, an HTTPException included,
\* leaves the handler as status 500 with the original exception as detail
ExceptException(r) == IF r.ok THEN r ELSE Raises(r.exc, 500)

\* averages.setdefault(platform, []); averages[platform].append(value)
SetDefaultAppend(d, k, value) ==
    IF DictHas(d, k) THEN DictSet(d, k, Append(DictGet(d, k), value))
    ELSE DictSet(d, k, <<value>>)

\* the columns the two grouping loops take (lines 222 and 242), in order
GroupedCols(df) ==
    LET Taken(i) == df.cols[i].tuple /\ ~Contains(df.cols[i].sub, kwUnnamed)
    IN  SelectSeq([i \in DOMAIN df.cols |-> i], Taken)

\* the loop of lines 221-225 and 241-245 over the first n grouped columns;
\* values[c] is what the loop appends for column c
RECURSIVE GroupLoop(_, _, _, _)
GroupLoop(df, cs, values, n) ==
    IF n = 0 THEN <<>>
    ELSE SetDefaultAppend(GroupLoop(df, cs, values, n - 1),
                          normalize_key(df.cols[cs[n]].top), values[cs[n]])

\* sum(v) / len(v) over the column means of one platform
MeanOfMeans(v) == FDivInt(FSum(v), Len(v))

\* round(sum(v)/len(v), 2) on line 226, v being cells of one row: the cell of
\* an int64 or float64 column is a numpy number and the mean a numpy.float64;
\* when every cell of v comes from an object column the mean is a Python float
RowAverage(v) ==
    IF \A i \in DOMAIN v : v[i].dtype = "object"
    THEN RoundPy(ListMean([i \in DOMAIN v |-> v[i].cell]))
    ELSE RoundNp(ListMean([i \in DOMAIN v |-> v[i].cell]))

\* {k: round(sum(v)/len(v), 2) for k, v in averages.items()}, line 226
RowAverages(averages) ==
    [i \in DOMAIN averages |->
        [k |-> averages[i].k, v |-> RowAverage(averages[i].v)]]

\* the same comprehension over lists of column means, line 246
ColumnAverages(averages) ==
    [i \in DOMAIN averages |->
        [k |-> averages[i].k, v |-> RoundNp(MeanOfMeans(averages[i].v))]]

\* Each handler is its try block, applied to what load_excel() gave, inside
\* the except clause.

all_students_try(ld) ==
    IF ~ld.ok THEN ld
    ELSE convert_to_flat_json(ld.value, ld.value.multi)

\* GET /students
get_all_students(file) == ExceptException(all_students_try(load_excel(file)))

student_by_roll_try(ld, roll_no) ==
    LET df == ld.value
        rc == find_roll_col(df)
        student_df == FilterRows(df, rc.value, roll_no)
        students == convert_to_flat_json(student_df, df.multi)
    IN  IF ~ld.ok THEN ld
        ELSE IF ~rc.ok THEN rc
        ELSE IF student_df.rows = <<>>
             THEN Raises("HTTPException: Student not found!", 404)
        ELSE IF ~students.ok THEN students
        ELSE Returns(students.value[1])

\* GET /student/{roll_no}
get_student_by_roll(file, roll_no) ==
    ExceptException(student_by_roll_try(load_excel(file), roll_no))

\* lines 165-173 and 179-187: StopIteration has its own except clause
FilterHandler(ld, kw, wanted, notFound) ==
    LET df == ld.value
        kc == NextColWith(df, kw)
    IN  IF ~ld.ok THEN ExceptException(ld)
        ELSE IF ~kc.ok THEN Raises(notFound, 500)
        ELSE ExceptException(
                 convert_to_flat_json(FilterRows(df, kc.value, wanted), df.multi))

students_by_department_try(ld, dept) ==
    FilterHandler(ld, kwDept, dept, "HTTPException: Department column not found!")

\* GET /students/department/{dept}
get_students_by_department(file, dept) ==
    students_by_department_try(load_excel(file), dept)

\* GET /students/crt/{crt_batch}
get_students_by_crt(file, crt_batch) ==
    FilterHandler(load_excel(file), kwCrt, crt_batch, "HTTPException: CRT column not found!")

\* the loop of lines 202-203 over the first n located columns
RECURSIVE PlatformLoop(_, _, _, _)
PlatformLoop(df, platform, cs, n) ==
    IF n = 0 THEN <<>>
    ELSE DictSet(PlatformLoop(df, platform, cs, n - 1),
                 platform \o <<"_">> \o df.cols[cs[n]].sub,
                 RoundNp(SeriesMean(Column(df, cs[n]))))

platform_average_try(ld, platform) ==
    LET df == ld.value
        platform_cols == PlatformCols(df, platform)
    IN  IF ~ld.ok THEN ld
        ELSE IF platform_cols = <<>>
             THEN Raises("HTTPException: Platform not found!", 404)
        ELSE IF \E i \in DOMAIN platform_cols : HasText(Column(df, platform_cols[i]))
             THEN Raises("TypeError", 0)
        ELSE Returns(PlatformLoop(df, platform, platform_cols, Len(platform_cols)))

\* GET /average/platform/{platform}
get_platform_average(file, platform) ==
    ExceptException(platform_average_try(load_excel(file), platform))

student_average_try(ld, roll_no) ==
    LET df == ld.value
        rc == find_roll_col(df)
        student_df == FilterRows(df, rc.value, roll_no)
        student_row == [c \in DOMAIN df.cols |->
                           [cell |-> student_df.rows[1][c], dtype |-> df.dtypes[c]]]
        cs == GroupedCols(df)
    IN  IF ~ld.ok THEN ld
        ELSE IF ~rc.ok THEN rc
        ELSE IF student_df.rows = <<>>
             THEN Raises("HTTPException: Student not found!", 404)
        ELSE IF \E i \in DOMAIN cs : IsText(student_row[cs[i]].cell)
             THEN Raises("TypeError", 0)
        ELSE Returns(RowAverages(GroupLoop(df, cs, student_row, Len(cs))))

\* GET /average/student/{roll_no}
get_student_average(file, roll_no) ==
    ExceptException(student_average_try(load_excel(file), roll_no))

department_average_try(ld, dept) ==
    LET df == ld.value
        dc == NextColWith(df, kwDept)
        dept_df == FilterRows(df, dc.value, dept)
        cs == GroupedCols(dept_df)
        means == [c \in DOMAIN dept_df.cols |-> SeriesMean(Column(dept_df, c))]
    IN  IF ~ld.ok THEN ld
        ELSE IF ~dc.ok THEN dc
        ELSE IF dept_df.rows = <<>>
             THEN Raises("HTTPException: No students found for this department!", 404)
        ELSE IF \E i \in DOMAIN cs : HasText(Column(dept_df, cs[i]))
             THEN Raises("TypeError", 0)
        ELSE Returns(ColumnAverages(GroupLoop(dept_df, cs, means, Len(cs))))

\* GET /average/department/{dept}
get_department_average(file, dept) ==
    ExceptException(department_average_try(load_excel(file), dept))

\* df[platform_cols].sum(axis=1) on one row: a missing cell counts as 0
RowTotal(row, platform_cols) ==
    SumNums([i \in DOMAIN platform_cols |-> row[platform_cols[i]]])

\* the columns df["Total"] selects, as positions in column order: the column
\* labelled "Total", or under a two-level header every column whose top label
\* is "Total"
TotalGroup(df) ==
    LET Selected(i) == /\ df.cols[i].tuple = df.multi
                       /\ df.cols[i].top = kwTotal
                       /\ ~df.cols[i].topInt
    IN  SelectSeq([i \in DOMAIN df.cols |-> i], Selected)

\* the label a new Total column gets: ("Total", "") under a two-level header
TotalCol(df) == IF df.multi THEN Col2(kwTotal, <<>>) ELSE Col1(kwTotal)

\* df["Total"] = totals: every column df["Total"] selects is overwritten, and
\* when it selects none the column is added at the end
SetTotal(df, totals, dtype) ==
    LET group == TotalGroup(df)
        InGroup(c) == \E i \in DOMAIN group : group[i] = c
    IN  IF group = <<>>
        THEN [df EXCEPT !.cols = Append(@, TotalCol(df)),
                        !.rows = [r \in DOMAIN @ |-> Append(@[r], Num(totals[r]))],
                        !.dtypes = Append(@, dtype)]
        ELSE [df EXCEPT !.rows = [r \in DOMAIN @ |->
                                    [c \in DOMAIN @[r] |->
                                        IF InGroup(c) THEN Num(totals[r]) ELSE @[r][c]]],
                        !.dtypes = [c \in DOMAIN @ |->
                                        IF InGroup(c) THEN dtype ELSE @[c]]]

\* a slip: of the rows sharing the largest total, the last one
IdxMax_Last(totals) ==
    CHOOSE r \in DOMAIN totals :
        /\ \A q \in DOMAIN totals : totals[q] <= totals[r]
        /\ \A q \in (r + 1)..Len(totals) : totals[q] < totals[r]

\* Series.idxmax(): the first position holding the largest value
IdxMax(totals) ==
    CHOOSE r \in DOMAIN totals :
        /\ \A q \in DOMAIN totals : totals[q] <= totals[r]
        /\ \A q \in 1..(r - 1) : totals[q] < totals[r]

\* lines 255-258: the request's own DataFrame gets its Total column; the sum
\* of int64 columns is int64, any other sum float64
topper_assign(ld, platform) ==
    LET df == ld.value
        rc == find_roll_col(df)
        platform_cols == PlatformCols(df, platform)
        Total == [r \in DOMAIN df.rows |-> RowTotal(df.rows[r], platform_cols)]
        dtype == IF /\ platform_cols # <<>>
                    /\ \A i \in DOMAIN platform_cols :
                          df.dtypes[platform_cols[i]] = "int64"
                 THEN "int64" ELSE "float64"
    IN  IF ~ld.ok THEN ld
        ELSE IF ~rc.ok THEN rc
        ELSE IF \E i \in DOMAIN platform_cols : HasText(Column(df, platform_cols[i]))
             THEN Raises("TypeError", 0)
        ELSE Returns([df |-> SetTotal(df, Total, dtype), roll_col |-> rc.value])

\* what indexing gives: one cell, a Series of count cells or a DataFrame of
\* count rows and count columns; every cell of it is the same
Boxed(shape, count, cell) == [shape |-> shape, count |-> count, cell |-> cell]

\* lines 259-260, on the DataFrame that now has the Total column.
\* df["Total"] is a Series under a single header, and under a two-level header
\* when it selects the one column ("Total", ""); topper_row is then a row,
\* topper_row["Total"] a cell under a single header and a Series of one cell
\* under a two-level header.  Otherwise df["Total"] is the DataFrame of the
\* selected columns, idxmax() gives the label of the topper once per column and
\* topper_row is the DataFrame of that row repeated.
topper_pick(assigned) ==
    LET df == assigned.value.df
        roll_col == assigned.value.roll_col
        group == TotalGroup(df)
        Total == [r \in DOMAIN df.rows |-> df.rows[r][group[1]].n]
        topper_row == df.rows[IdxMax(Total)]
    IN  IF ~assigned.ok THEN assigned
        ELSE IF df.rows = <<>> THEN Raises("ValueError", 0)
        ELSE IF ~df.multi
             THEN Returns([RollNo |-> Boxed("scalar", 1, topper_row[roll_col]),
                           TotalMarks |-> Boxed("scalar", 1, topper_row[group[1]])])
        ELSE IF Len(group) = 1 /\ df.cols[group[1]].sub = <<>>
             THEN Returns([RollNo |-> Boxed("scalar", 1, topper_row[roll_col]),
                           TotalMarks |-> Boxed("Series", 1, topper_row[group[1]])])
        ELSE Returns([RollNo |-> Boxed("Series", Len(group), topper_row[roll_col]),
                      TotalMarks |-> Boxed("DataFrame", Len(group), topper_row[group[1]])])

\* GET /topper/{platform}
get_platform_topper(file, platform) ==
    ExceptException(topper_pick(topper_assign(load_excel(file), platform)))

\* The DataFrame of line 258 is the object load_excel() built for this call
\* (lines 29 and 36): the assignment reaches neither the file nor the
\* DataFrame of any other call.
FileAfterAssign_Shared(file, df) == File(TRUE, df.multi, df.cols, df.rows)

FileAfterAssign(file, df) == file

---------------------------------------------------------------------------
(* The spreadsheets and the requests *)

MaxRows == 3    \* rows of a sheet
MaxLen == 3     \* characters of a generated label
MaxCols == 3    \* columns of a generated header
NumReqs == 2    \* requests in flight at once

sRollNo == <<"R","o","l","l"," ","N","o">>
sROLLNO == <<"R","O","L","L"," ","N","O">>
sEnrollment == <<"E","n","r","o","l","l","m","e","n","t">>
sRoll == <<"R","o","l","l">>
sName == <<"N","a","m","e">>
sStudent == <<"S","t","u","d","e","n","t">>
sDept == <<"D","e","p","t">>
sCollege == <<"C","o","l","l","e","g","e">>
scollege == <<"c","o","l","l","e","g","e">>
sCodeChef == <<"C","o","d","e","C","h","e","f">>
sSuperSet == <<"S","u","p","e","r","S","e","t">>
sTest1 == <<"T","e","s","t","1">>
sTest2 == <<"T","e","s","t","2">>
sTest_1 == <<"T","e","s","t"," ","1">>
sTest == <<"T","e","s","t">>
sTotal == kwTotal
sUnnamed0 == kwUnnamed \o <<":"," ","0","_","l","e","v","e","l","_","1">>
sUnnamed1 == kwUnnamed \o <<":"," ","1","_","l","e","v","e","l","_","1">>
sUnnamed2 == kwUnnamed \o <<":"," ","2","_","l","e","v","e","l","_","1">>
sUnnamed3 == kwUnnamed \o <<":"," ","3">>
sunnamed == <<"u","n","n","a","m","e","d">>
sCo == <<"C","o">>
sa1 == <<"a","1">>
sA1 == <<"A","1">>
sa == <<"a">>
sb2 == <<"b","2">>
sCSE == <<"C","S","E">>
scse == <<"c","s","e">>
sECE == <<"E","C","E">>
sME == <<"M","E">>
sBatch1 == <<"B","a","t","c","h","1">>
sAB == <<"A","B">>
s1 == <<"1">>
s1p0 == <<"1",".","0">>

\* all sequences that take their i-th element from doms[i]
RECURSIVE Product(_)
Product(doms) ==
    IF doms = <<>> THEN {<<>>}
    ELSE {<<h>> \o t : h \in Head(doms), t \in Product(Tail(doms))}

SeqsUpTo(S, n) == UNION {[1..k -> S] : k \in 0..n}

Layout(multi, cols, doms) == [multi |-> multi, cols |-> cols, doms |-> doms]

\* two platforms whose top labels share a prefix, one of them spelt in two
\* letter cases, beside the identity columns
MainCols ==
    <<Col2(sRollNo, sUnnamed0), Col2(sDept, sUnnamed1),
      Col2(sCollege, sTest1), Col2(sCollege, sTest2),
      Col2(scollege, sTest1), Col2(sCodeChef, sTest1)>>

\* students of one department, told apart by their roll numbers
LayoutMain ==
    Layout(TRUE, MainCols,
           <<{Str(sa1), Str(sA1)}, {Str(sCSE)},
             {Num(0), Num(1)}, {NaN, Num(2)}, {Num(1)}, {Num(3)}>>)

\* students of two departments
LayoutDepts ==
    Layout(TRUE, MainCols,
           <<{Str(sb2)}, {Str(sCSE), Str(sECE)},
             {Num(1)}, {NaN, Num(2)}, {Num(1)}, {Num(3)}>>)

\* no column names the roll number, and the names sit under a group header
LayoutNoRoll ==
    Layout(TRUE,
           <<Col2(sStudent, sName), Col2(sDept, sUnnamed1), Col2(sCollege, sTest1)>>,
           <<{Str(sb2)}, {Str(sCSE), Str(sECE)}, {Num(0), Num(1)}>>)

\* the roll number under a group header, and no department
LayoutSubRoll ==
    Layout(TRUE,
           <<Col2(sStudent, sROLLNO), Col2(sCollege, sTest_1)>>,
           <<{Str(sa1), Str(sb2)}, {NaN, Num(2)}>>)

\* a sheet of one header row and nothing below it: read_excel(header=[0, 1])
\* on line 29 has no second row to read, and line 36 reads the header alone
LayoutSingle ==
    Layout(FALSE,
           <<Col1(sRoll), Col1(sDept), Col1(sTest1)>>,
           <<{}, {}, {}>>)

LayoutSmall ==
    Layout(TRUE,
           <<Col2(sRollNo, sUnnamed0), Col2(sDept, sUnnamed1), Col2(sCollege, sTest1)>>,
           <<{Str(sa1), Str(sb2)}, {Str(sCSE)}, {Num(1)}>>)

\* roll numbers typed as numbers, one of them missing in some sheets
LayoutNumRoll ==
    Layout(TRUE,
           <<Col2(sRollNo, sUnnamed0), Col2(sCollege, sTest1)>>,
           <<{Num(1), NaN}, {Num(2)}>>)

\* a test named by a year, which read_excel reads as a number
LayoutYear ==
    Layout(TRUE,
           <<Col2(sRollNo, sUnnamed0), Col2Int(sCollege, 2023)>>,
           <<{Str(sa1)}, {Num(1), Num(2)}>>)

\* a score column where an absent student is marked with text
LayoutMixed ==
    Layout(TRUE,
           <<Col2(sRollNo, sUnnamed0), Col2(sDept, sUnnamed1), Col2(sCollege, sTest1)>>,
           <<{Str(sa1)}, {Str(sCSE), Str(sECE)}, {Num(1), Str(sAB)}>>)

\* a platform column whose second header cell holds a space
LayoutBlank ==
    Layout(TRUE,
           <<Col2(sRollNo, sUnnamed0), Col2(sDept, sUnnamed1),
             Col2(sCollege, <<" ">>), Col2(sCollege, sTest1)>>,
           <<{Str(sa1)}, {Str(sCSE)}, {Num(1)}, {NaN, Num(2)}>>)

\* a sheet that already has a Total column
LayoutTotal ==
    Layout(TRUE,
           <<Col2(sRollNo, sUnnamed0), Col2(sCollege, sTest1), Col2(sTotal, sUnnamed2)>>,
           <<{Str(sa1), Str(sb2)}, {Num(1), Num(2)}, {Num(9)}>>)

Layouts ==
    {LayoutMain, LayoutDepts, LayoutNoRoll, LayoutSubRoll, LayoutSingle,
     LayoutSmall, LayoutNumRoll, LayoutYear, LayoutMixed, LayoutBlank,
     LayoutTotal}

\* the sheets of a layout: up to MaxRows rows under a two-level header, and no
\* row under a single one, which load_excel returns only when the sheet has
\* no second row for read_excel(header=[0, 1]) to take as sub-labels
SheetsOf(L) ==
    {File(TRUE, L.multi, L.cols, rows) :
        rows \in SeqsUpTo(Product(L.doms), IF L.multi THEN MaxRows ELSE 0)}

Sheets == {NoFile} \cup UNION {SheetsOf(L) : L \in Layouts}

RollArgs == {sa1, sA1, sa, sb2, s1, s1p0}
DeptArgs == {scse, sECE, sME}
CrtArgs == {sBatch1}
PlatformArgs == {sCollege, sCo, sCodeChef, sTest, sRoll, sTotal}

---------------------------------------------------------------------------
(* The requests, each served from the sheet as it stands *)

Call(op, arg) == [op |-> op, arg |-> arg]

Init ==
    /\ sheet \in Sheets
    /\ call = Call("none", <<>>)
    /\ ret = Returns(<<>>)
    /\ local = <<>>

\* no request is being served
Idle == call = Call("none", <<>>)

GetAllStudents ==
    /\ Idle
    /\ call' = Call("get_all_students", <<>>)
    /\ ret' = get_all_students(sheet)
    /\ UNCHANGED <<sheet, local>>

GetStudentByRoll ==
    /\ Idle
    /\ \E roll_no \in RollArgs :
            /\ call' = Call("get_student_by_roll", roll_no)
            /\ ret' = get_student_by_roll(sheet, roll_no)
            /\ UNCHANGED <<sheet, local>>

GetStudentsByDepartment ==
    /\ Idle
    /\ \E dept \in DeptArgs :
            /\ call' = Call("get_students_by_department", dept)
            /\ ret' = get_students_by_department(sheet, dept)
            /\ UNCHANGED <<sheet, local>>

GetStudentsByCrt ==
    /\ Idle
    /\ \E crt_batch \in CrtArgs :
            /\ call' = Call("get_students_by_crt", crt_batch)
            /\ ret' = get_students_by_crt(sheet, crt_batch)
            /\ UNCHANGED <<sheet, local>>

GetPlatformAverage ==
    /\ Idle
    /\ \E platform \in PlatformArgs :
            /\ call' = Call("get_platform_average", platform)
            /\ ret' = get_platform_average(sheet, platform)
            /\ UNCHANGED <<sheet, local>>

GetStudentAverage ==
    /\ Idle
    /\ \E roll_no \in RollArgs :
            /\ call' = Call("get_student_average", roll_no)
            /\ ret' = get_student_average(sheet, roll_no)
            /\ UNCHANGED <<sheet, local>>

GetDepartmentAverage ==
    /\ Idle
    /\ \E dept \in DeptArgs :
            /\ call' = Call("get_department_average", dept)
            /\ ret' = get_department_average(sheet, dept)
            /\ UNCHANGED <<sheet, local>>

GetPlatformTopper ==
    /\ Idle
    /\ \E platform \in PlatformArgs :
            /\ call' = Call("get_platform_topper", platform)
            /\ ret' = get_platform_topper(sheet, platform)
            /\ UNCHANGED <<sheet, local>>

\* the response is sent and the server waits for the next request
Respond ==
    /\ ~Idle
    /\ call' = Call("none", <<>>)
    /\ ret' = Returns(<<>>)
    /\ UNCHANGED <<sheet, local>>

Next ==
    \/ GetAllStudents
    \/ GetStudentByRoll
    \/ GetStudentsByDepartment
    \/ GetStudentsByCrt
    \/ GetPlatformAverage
    \/ GetStudentAverage
    \/ GetDepartmentAverage
    \/ GetPlatformTopper
    \/ Respond

Spec == Init /\ [][Next]_vars

---------------------------------------------------------------------------
(* The header normaliser, the flattener's keys and the roll-number lookup,
   applied to generated labels and headers *)

Alphabet == {"a", "T", "1", " ", "_", "\r", "É"}

GeneratedLabels == SeqsUpTo(Alphabet, MaxLen)

NamedLabels ==
    {sRollNo, sROLLNO, sEnrollment, sName, sDept, sSuperSet, sTest1, sTest_1,
     sUnnamed0, sUnnamed3, sunnamed, <<" ", "c","o","l","l","e","g","e", " ">>,
     <<" ", "\t">>, <<"\f", "\n">>, <<"X">> \o kwUnnamed}

Labels == GeneratedLabels \cup NamedLabels

TopLabels == {sSuperSet, scollege, <<"_">>, <<"T", " ", "1">>}

HeaderLabels == {sROLLNO, sEnrollment, sName, sUnnamed0}

Headers ==
    SeqsUpTo({Col2(top, sub) : top \in HeaderLabels, sub \in HeaderLabels}, MaxCols)
        \cup SeqsUpTo({Col1(label) : label \in HeaderLabels}, MaxCols)

InitKeys ==
    /\ sheet = NoFile
    /\ call = Call("none", <<>>)
    /\ ret = Returns(<<>>)
    /\ local = <<>>

NormalizeKey ==
    /\ Idle
    /\ \E key \in Labels :
            /\ call' = Call("normalize_key", key)
            /\ ret' = normalize_key(key)
            /\ UNCHANGED <<sheet, local>>

\* the two-level columns given to the flattener: every top label over every
\* text sub-label, and sub-labels that are numbers
FlattenColumns ==
    {Col2(top, sub) : top \in TopLabels, sub \in Labels}
        \cup {Col2Int(top, n) : top \in TopLabels, n \in {1, 2023}}

\* convert_to_flat_json on one row under one two-level column
FlattenOneColumn ==
    /\ Idle
    /\ \E col \in FlattenColumns :
            /\ call' = Call("convert_to_flat_json", col)
            /\ ret' = convert_to_flat_json(
                          DataFrame(TRUE, <<col>>, << <<Num(1)>> >>), TRUE)
            /\ UNCHANGED <<sheet, local>>

FindRollCol ==
    /\ Idle
    /\ \E cols \in Headers :
            /\ call' = Call("find_roll_col", cols)
            /\ ret' = find_roll_col(DataFrame(cols # <<>> /\ cols[1].tuple, cols, <<>>))
            /\ UNCHANGED <<sheet, local>>

NextKeys ==
    \/ NormalizeKey
    \/ FlattenOneColumn
    \/ FindRollCol
    \/ Respond

SpecKeys == InitKeys /\ [][NextKeys]_vars

---------------------------------------------------------------------------
(* Requests served at the same time: each one loads the file, works on its
   own DataFrame and returns; the steps of different requests interleave *)

ReqIds == 1..NumReqs

ConcSheets == SheetsOf(LayoutSmall)

ConcCalls ==
    {Call("get_all_students", <<>>), Call("get_student_by_roll", sa1),
     Call("get_students_by_department", scse),
     Call("get_department_average", scse), Call("get_platform_topper", sCollege)}

\* the try block of a handler other than the topper, on a loaded DataFrame
TryBlock(c, ld) ==
    CASE c.op = "get_all_students" -> ExceptException(all_students_try(ld))
      [] c.op = "get_student_by_roll" -> ExceptException(student_by_roll_try(ld, c.arg))
      [] c.op = "get_students_by_department" -> students_by_department_try(ld, c.arg)
      [] c.op = "get_department_average" -> ExceptException(department_average_try(ld, c.arg))

\* the same request served with no other request in flight
ServedAlone(c, file) ==
    CASE c.op = "get_all_students" -> get_all_students(file)
      [] c.op = "get_student_by_roll" -> get_student_by_roll(file, c.arg)
      [] c.op = "get_students_by_department" -> get_students_by_department(file, c.arg)
      [] c.op = "get_department_average" -> get_department_average(file, c.arg)
      [] c.op = "get_platform_topper" -> get_platform_topper(file, c.arg)

InitConc ==
    /\ sheet \in ConcSheets
    /\ call = [r \in ReqIds |-> [op |-> "none", arg |-> <<>>, pc |-> "idle"]]
    /\ ret = [r \in ReqIds |-> Returns(<<>>)]
    /\ local = [r \in ReqIds |-> Returns(<<>>)]

\* a request arrives and load_excel() parses the file for it
Load(r) ==
    \E c \in ConcCalls :
        /\ call[r].pc = "idle"
        /\ call' = [call EXCEPT ![r] = [op |-> c.op, arg |-> c.arg, pc |-> "loaded"]]
        /\ local' = [local EXCEPT ![r] = load_excel(sheet)]
        /\ UNCHANGED <<sheet, ret>>

\* the topper's lines 256-258: its DataFrame gets the Total column
AssignTotal(r) ==
    /\ call[r].pc = "loaded"
    /\ call[r].op = "get_platform_topper"
    /\ LET assigned == topper_assign(local[r], call[r].arg)
       IN  /\ local' = [local EXCEPT ![r] = assigned]
           /\ call' = [call EXCEPT ![r].pc = "assigned"]
           /\ sheet' = IF assigned.ok
                       THEN FileAfterAssign(sheet, assigned.value.df)
                       ELSE sheet
    /\ UNCHANGED ret

\* the topper's lines 259-262
PickTopper(r) ==
    /\ call[r].pc = "assigned"
    /\ ret' = [ret EXCEPT ![r] = ExceptException(topper_pick(local[r]))]
    /\ call' = [call EXCEPT ![r].pc = "done"]
    /\ UNCHANGED <<sheet, local>>

\* any other handler, from its DataFrame to its response
Finish(r) ==
    /\ call[r].pc = "loaded"
    /\ call[r].op # "get_platform_topper"
    /\ ret' = [ret EXCEPT ![r] = TryBlock(call[r], local[r])]
    /\ call' = [call EXCEPT ![r].pc = "done"]
    /\ UNCHANGED <<sheet, local>>

\* the response is sent and the request's DataFrame is dropped
Reply(r) ==
    /\ call[r].pc = "done"
    /\ call' = [call EXCEPT ![r] = [op |-> "none", arg |-> <<>>, pc |-> "idle"]]
    /\ ret' = [ret EXCEPT ![r] = Returns(<<>>)]
    /\ local' = [local EXCEPT ![r] = Returns(<<>>)]
    /\ UNCHANGED sheet

NextConc ==
    \E r \in ReqIds :
        \/ Load(r)
        \/ AssignTotal(r)
        \/ PickTopper(r)
        \/ Finish(r)
        \/ Reply(r)

SpecConc == InitConc /\ [][NextConc]_vars

---------------------------------------------------------------------------
(* Vocabulary of the properties *)

\* label contains kw (given in lower case) in any letter case
HasKeyword(label, kw) ==
    \E i \in 1..(Len(label) - Len(kw) + 1) :
        \A j \in 1..Len(kw) : ToLower(label[i + j - 1]) = kw[j]

\* the two texts are equal up to letter case
SameIgnoringCase(a, b) ==
    Len(a) = Len(b) /\ \A i \in 1..Len(a) : ToLower(a[i]) = ToLower(b[i])

\* sub is empty, whitespace-only or carries the placeholder of a missing sub-header
NoSubHeader(sub) ==
    \/ \A i \in 1..Len(sub) : sub[i] \in Whitespace
    \/ \E i \in 1..(Len(sub) - 6) : SubSeq(sub, i, i + 6) = kwUnnamed

\* the sum and the product of f[x] over the x of S
RECURSIVE SumOver(_, _)
SumOver(S, f) ==
    IF S = {} THEN 0
    ELSE LET x == CHOOSE y \in S : TRUE IN f[x] + SumOver(S \ {x}, f)

RECURSIVE ProductOver(_, _)
ProductOver(S, f) ==
    IF S = {} THEN 1
    ELSE LET x == CHOOSE y \in S : TRUE IN f[x] * ProductOver(S \ {x}, f)

Abs(n) == IF n < 0 THEN 0 - n ELSE n

\* h hundredths is the fraction num/den exactly
ExactlyHundredths(h, num, den) == h * den = 100 * num

\* h hundredths is num/den rounded to two decimal places: no other hundredth
\* is nearer to num/den
RoundedHundredths(h, num, den) == 2 * Abs(100 * num - h * den) <= den

---------------------------------------------------------------------------
(* C9: header normaliser *)

\* C9: normalising an already normalised key returns it unchanged; a key holds
\* only ASCII letters and digits and does not start with a lower-case letter;
\* a label with no letter or digit gives the empty key.
C9_NormalizeIdempotent ==
    call.op = "normalize_key" =>
        /\ normalize_key(ret) = ret
        /\ \A i \in 1..Len(ret) : IsUpper(ret[i]) \/ IsLower(ret[i]) \/ IsDigit(ret[i])
        /\ ret # <<>> => ~IsLower(ret[1])
        /\ (\A i \in 1..Len(call.arg) : ~IsAlnum(call.arg[i])) => ret = <<>>

\* a label whose first letter follows a separator and is in lower case
C9_Witness ==
    /\ call.op = "normalize_key"
    /\ Len(call.arg) >= 2 /\ call.arg[1] = "_" /\ call.arg[2] = "a"
    /\ ret # <<>> /\ ret[1] = "A" /\ ret # call.arg

---------------------------------------------------------------------------
(* C7: the flat key of a two-level column *)

\* the only key of the only record convert_to_flat_json returned
OnlyKey == ret.value[1][1].k

\* C7: for text labels, the flat key of (top, sub) is normalize(top) alone
\* when sub is empty, whitespace-only or the placeholder, and
\* normalize(top)_normalize(sub) in every other case; ("SuperSet",
\* "Unnamed: 3") gives "SuperSet" and ("SuperSet", "Test1") gives
\* "SuperSet_Test1".
C7_FlatKey ==
    (call.op = "convert_to_flat_json" /\ ~call.arg.subInt) =>
        /\ ret.ok /\ Len(ret.value) = 1 /\ Len(ret.value[1]) = 1
        /\ NoSubHeader(call.arg.sub) => OnlyKey = normalize_key(call.arg.top)
        /\ ~NoSubHeader(call.arg.sub) =>
               OnlyKey = normalize_key(call.arg.top) \o <<"_">> \o normalize_key(call.arg.sub)
        /\ call.arg = Col2(sSuperSet, sUnnamed3) => OnlyKey = sSuperSet
        /\ call.arg = Col2(sSuperSet, sTest1) => OnlyKey = sSuperSet \o <<"_">> \o sTest1

\* a sub-label of a space and a carriage return under a top label
C7_Witness ==
    /\ call.op = "convert_to_flat_json"
    /\ call.arg.top = sSuperSet
    /\ call.arg.sub = <<" ", "\r">>
    /\ ret.ok /\ OnlyKey = sSuperSet

---------------------------------------------------------------------------
(* C8: the roll-number column *)

\* the positions of the columns with "roll" in a label, in any letter case
RollColumns(cols) ==
    {i \in DOMAIN cols :
        \/ HasKeyword(cols[i].top, kwRoll)
        \/ cols[i].tuple /\ HasKeyword(cols[i].sub, kwRoll)}

\* C8: the lookup returns the first column, in column order, with "roll" in
\* either level of its label in any letter case, and fails with the
\* column-not-found error exactly when no column has it.
C8_FirstRollColumn ==
    call.op = "find_roll_col" =>
        LET M == RollColumns(call.arg)
        IN  /\ ret.ok <=> M # {}
            /\ ret.ok => ret.value \in M /\ \A j \in M : ret.value <= j
            /\ ~ret.ok => /\ ret.status = 500
                          /\ ret.exc = "HTTPException: Roll No column not found in Excel!"

\* the first column has no "roll", the second has it in the sub-label only,
\* and a later column has it too
C8_Witness ==
    /\ call.op = "find_roll_col"
    /\ Len(call.arg) = 3
    /\ call.arg[1] = Col2(sName, sUnnamed0)
    /\ call.arg[2] = Col2(sName, sROLLNO)
    /\ call.arg[3] = Col2(sEnrollment, sName)
    /\ ret.ok /\ ret.value = 2

---------------------------------------------------------------------------
(* Vocabulary of the properties about a sheet *)

Rows(file) == DOMAIN file.rows

FirstOf(S) == CHOOSE i \in S : \A j \in S : i <= j

LastOf(S) == CHOOSE i \in S : \A j \in S : j <= i

\* the columns with "dept" in a label, in any letter case
DeptColumns(cols) ==
    {i \in DOMAIN cols :
        \/ HasKeyword(cols[i].top, kwDept)
        \/ cols[i].tuple /\ HasKeyword(cols[i].sub, kwDept)}

\* the rows whose cell under column c reads as the wanted text, up to letter
\* case
MatchingRows(file, c, wanted) ==
    {r \in Rows(file) :
        SameIgnoringCase(AsTypeStr(file.rows[r][c], ColumnDtype(Column(file, c))),
                         wanted)}

\* the two-level columns whose top label contains the platform name
LocatedColumns(file, platform) ==
    {c \in DOMAIN file.cols :
        file.cols[c].tuple /\ HasKeyword(file.cols[c].top, Lower(platform))}

\* the two-level columns with a real sub-label: not empty, not whitespace-only
\* and not the placeholder
PlatformColumns(file) ==
    {c \in DOMAIN file.cols : file.cols[c].tuple /\ ~NoSubHeader(file.cols[c].sub)}

\* the platform group of a normalised top label, among the columns with a
\* real sub-label
StatedGroupOf(file, k) ==
    {c \in PlatformColumns(file) : normalize_key(file.cols[c].top) = k}

StatedGroupNames(file) ==
    {normalize_key(file.cols[c].top) : c \in PlatformColumns(file)}

\* the two-level columns whose sub-label does not carry the placeholder
\* "Unnamed"
GroupedColumns(file) ==
    {c \in DOMAIN file.cols :
        /\ file.cols[c].tuple
        /\ ~\E i \in 1..(Len(file.cols[c].sub) - 6) :
                SubSeq(file.cols[c].sub, i, i + 6) = kwUnnamed}

\* the group of a normalised top label among them
GroupOf(file, k) ==
    {c \in GroupedColumns(file) : normalize_key(file.cols[c].top) = k}

GroupNames(file) == {normalize_key(file.cols[c].top) : c \in GroupedColumns(file)}

NumberIn(cell) == IF cell.kind = "num" THEN cell.n ELSE 0

\* sum and number of the values present in column c over the rows R
ColSum(file, R, c) == SumOver(R, [r \in R |-> NumberIn(file.rows[r][c])])
ColCount(file, R, c) == Cardinality({r \in R : file.rows[r][c].kind = "num"})

NoText(file, R, C) == \A r \in R, c \in C : file.rows[r][c].kind # "str"
AllPresent(file, R, C) == \A c \in C : ColCount(file, R, c) > 0

\* the mean of the column means of the columns C over the rows R, as the
\* fraction MeanOfMeansNum / MeanOfMeansDen (every column has a value)
CountsProduct(file, R, C) == ProductOver(C, [c \in C |-> ColCount(file, R, c)])
MeanOfMeansNum(file, R, C) ==
    SumOver(C, [c \in C |-> ColSum(file, R, c)
                            * (CountsProduct(file, R, C) \div ColCount(file, R, c))])
MeanOfMeansDen(file, R, C) == Cardinality(C) * CountsProduct(file, R, C)

\* the flat mean over all the cells of the columns C in the rows R
FlatNum(file, R, C) == SumOver(C, [c \in C |-> ColSum(file, R, c)])
FlatDen(file, R, C) == SumOver(C, [c \in C |-> ColCount(file, R, c)])

Keys(d) == {d[i].k : i \in DOMAIN d}

---------------------------------------------------------------------------
(* C1: a query that matches nothing *)

\* C1: for the student lookup and the per-student, per-department and
\* per-platform averages, a well-formed query that matches zero records is
\* answered with the NotFound error, status 404, which differs from the
\* status 500 answered when the roll-number or department column is missing.
C1_NotFoundIs404 ==
    /\ ( /\ call.op \in {"get_student_by_roll", "get_student_average"}
         /\ sheet.exists )
       => LET M == RollColumns(sheet.cols)
          IN  /\ M = {} => ret.status = 500
              /\ (M # {} /\ MatchingRows(sheet, FirstOf(M), call.arg) = {})
                    => ret.status = 404
    /\ ( /\ call.op = "get_department_average"
         /\ sheet.exists )
       => LET M == DeptColumns(sheet.cols)
          IN  /\ M = {} => ret.status = 500
              /\ (M # {} /\ MatchingRows(sheet, FirstOf(M), call.arg) = {})
                    => ret.status = 404
    /\ ( /\ call.op = "get_platform_average"
         /\ sheet.exists
         /\ LocatedColumns(sheet, call.arg) = {} )
       => ret.status = 404

---------------------------------------------------------------------------
(* C2: per-department averages *)

\* the sheet of the example: two CSE students, College Test1 = 80 and 100
ExampleSheet ==
    File(TRUE, TRUE,
         <<Col2(sRollNo, sUnnamed0), Col2(sDept, sUnnamed1), Col2(sCollege, sTest1)>>,
         << <<Str(sa1), Str(sCSE), Num(80)>>, <<Str(sA1), Str(sCSE), Num(100)>> >>)

ExampleAnswer == get_department_average(ExampleSheet, sCSE)

\* the department request on a sheet with a department column, for a
\* department that matches at least one row
DeptCase ==
    /\ call.op = "get_department_average"
    /\ sheet.exists
    /\ DeptColumns(sheet.cols) # {}
    /\ MatchingRows(sheet, FirstOf(DeptColumns(sheet.cols)), call.arg) # {}

DeptRows == MatchingRows(sheet, FirstOf(DeptColumns(sheet.cols)), call.arg)

\* a grouped column holds text in a row of the department
TextInDeptRows == ~NoText(sheet, DeptRows, GroupedColumns(sheet))

\* the request is answered with averages
DeptAverageCase == DeptCase /\ ~TextInDeptRows

\* C2 as stated: for every dataset and every department that matches a row,
\* the request returns, for each platform group (two-level columns with a real
\* sub-label, grouped by normalised top label), the mean of the per-column
\* means over the filtered rows, each ignoring missing values.
C2_MeanOfMeansExact ==
    DeptCase =>
        /\ ret.ok
        /\ \A k \in StatedGroupNames(sheet) :
             LET G == StatedGroupOf(sheet, k)
             IN  AllPresent(sheet, DeptRows, G) =>
                    \E i \in DOMAIN ret.value :
                        /\ ret.value[i].k = k
                        /\ ~ret.value[i].v.nan
                        /\ ExactlyHundredths(ret.value[i].v.h,
                                             MeanOfMeansNum(sheet, DeptRows, G),
                                             MeanOfMeansDen(sheet, DeptRows, G))

\* C2 amended: for every dataset and every department that matches a row, the
\* groups are the two-level columns whose sub-label does not contain
\* "Unnamed", grouped by normalised top label. When one of these columns holds
\* text in a filtered row the request fails with status 500. Otherwise it
\* returns one entry per group: the mean of the per-column means over the
\* filtered rows, each ignoring missing values, rounded to two decimal places,
\* and NaN when a column of the group has no value in the filtered rows.
\* College is 90 in the example.
C2_MeanOfMeansRounded ==
    /\ (DeptCase /\ TextInDeptRows) => (~ret.ok /\ ret.status = 500)
    /\ DeptAverageCase =>
        /\ ret.ok
        /\ Keys(ret.value) = GroupNames(sheet)
        /\ Len(ret.value) = Cardinality(GroupNames(sheet))
        /\ \A i \in DOMAIN ret.value :
             LET G == GroupOf(sheet, ret.value[i].k)
             IN  IF AllPresent(sheet, DeptRows, G)
                 THEN /\ ~ret.value[i].v.nan
                      /\ RoundedHundredths(ret.value[i].v.h,
                                           MeanOfMeansNum(sheet, DeptRows, G),
                                           MeanOfMeansDen(sheet, DeptRows, G))
                 ELSE ret.value[i].v.nan
    /\ ExampleAnswer = Returns(<<[k |-> sCollege, v |-> Hundredths(9000)]>>)

\* two rows of the department, a group of several columns with different
\* numbers of values, and a result that is neither the flat mean nor a whole
\* number of hundredths before rounding
C2_Witness ==
    /\ DeptAverageCase
    /\ Cardinality(DeptRows) >= 2
    /\ Cardinality(DeptRows) < Len(sheet.rows)
    /\ \E i \in DOMAIN ret.value :
         LET G == GroupOf(sheet, ret.value[i].k)
         IN  /\ Cardinality(G) >= 2
             /\ AllPresent(sheet, DeptRows, G)
             /\ \E c \in G : ColCount(sheet, DeptRows, c) < Cardinality(DeptRows)
             /\ ~RoundedHundredths(ret.value[i].v.h,
                                   FlatNum(sheet, DeptRows, G), FlatDen(sheet, DeptRows, G))
             /\ ~ExactlyHundredths(ret.value[i].v.h,
                                   MeanOfMeansNum(sheet, DeptRows, G),
                                   MeanOfMeansDen(sheet, DeptRows, G))

---------------------------------------------------------------------------
(* C3: topper by platform *)

\* the total of row r over the columns C, a missing value counting as 0
RowSum(file, r, C) == SumOver(C, [c \in C |-> NumberIn(file.rows[r][c])])

\* the topper request on a sheet with rows, a roll-number column and numbers
\* in the located columns
TopperCase ==
    /\ call.op = "get_platform_topper"
    /\ sheet.exists
    /\ sheet.rows # <<>>
    /\ RollColumns(sheet.cols) # {}
    /\ NoText(sheet, Rows(sheet), LocatedColumns(sheet, call.arg))

\* C3: topper-by-platform returns the roll number and the total of a row whose
\* sum over the located columns, missing values counted as 0, is maximal, and
\* of several such rows the first in row order.
C3_TopperFirstMax ==
    TopperCase =>
        LET L == LocatedColumns(sheet, call.arg)
            Best == {r \in Rows(sheet) :
                        \A q \in Rows(sheet) : RowSum(sheet, q, L) <= RowSum(sheet, r, L)}
        IN  /\ ret.ok
            /\ ret.value.RollNo.cell
                   = sheet.rows[FirstOf(Best)][FirstOf(RollColumns(sheet.cols))]
            /\ ret.value.TotalMarks.cell = Num(RowSum(sheet, FirstOf(Best), L))

\* two rows share the largest total, one of them built on a missing value,
\* they carry different roll numbers and a row before them has a smaller total
C3_Witness ==
    /\ TopperCase
    /\ call.arg = sCollege
    /\ Len(sheet.rows) = 3
    /\ LET L == LocatedColumns(sheet, call.arg)
           roll == FirstOf(RollColumns(sheet.cols))
       IN  /\ RowSum(sheet, 1, L) < RowSum(sheet, 2, L)
           /\ RowSum(sheet, 2, L) = RowSum(sheet, 3, L)
           /\ sheet.rows[2][roll] # sheet.rows[3][roll]
           /\ \E c \in L : sheet.rows[1][c] = NaN
           /\ ret.ok /\ ret.value.RollNo.cell = sheet.rows[2][roll]
           /\ ret.value.TotalMarks.cell = Num(RowSum(sheet, 2, L))

---------------------------------------------------------------------------
(* C4: per-platform averages *)

\* C4: per-platform averages has one entry for every located column: its key
\* is the requested platform name, an underscore and the column's sub-label,
\* its value the column's own mean over all rows (to two decimal places);
\* no located column's mean is missing from or replaced in the result.
C4_OneEntryPerColumn ==
    (call.op = "get_platform_average" /\ ret.ok) =>
        LET L == LocatedColumns(sheet, call.arg)
        IN  /\ Len(ret.value) = Cardinality(L)
            /\ \A c \in L :
                 \E i \in DOMAIN ret.value :
                    /\ ret.value[i].k = call.arg \o <<"_">> \o sheet.cols[c].sub
                    /\ ColCount(sheet, Rows(sheet), c) > 0 =>
                          /\ ~ret.value[i].v.nan
                          /\ RoundedHundredths(ret.value[i].v.h,
                                               ColSum(sheet, Rows(sheet), c),
                                               ColCount(sheet, Rows(sheet), c))

---------------------------------------------------------------------------
(* C5: per-student averages *)

\* C5: per-student averages are computed from the first row, in row order,
\* whose roll number equals the requested one up to letter case; the result
\* maps each normalised platform name to the mean (to two decimal places) of
\* that row's values in the platform's columns; with no such row the
\* operation fails with NotFound.
C5_StudentAverage ==
    ( /\ call.op = "get_student_average"
      /\ sheet.exists
      /\ RollColumns(sheet.cols) # {} )
    => LET M == MatchingRows(sheet, FirstOf(RollColumns(sheet.cols)), call.arg)
       IN  /\ M = {} => ret.status = 404
           /\ (M # {} /\ NoText(sheet, {FirstOf(M)}, GroupedColumns(sheet))) =>
                /\ ret.ok
                /\ Keys(ret.value) = GroupNames(sheet)
                /\ \A i \in DOMAIN ret.value :
                     LET G == GroupOf(sheet, ret.value[i].k)
                     IN  AllPresent(sheet, {FirstOf(M)}, G) =>
                            /\ ~ret.value[i].v.nan
                            /\ RoundedHundredths(ret.value[i].v.h,
                                                 FlatNum(sheet, {FirstOf(M)}, G),
                                                 Cardinality(G))

---------------------------------------------------------------------------
(* C6: flattening *)

\* the normalised key of a column
KeyOf(col) ==
    IF col.tuple /\ ~NoSubHeader(col.sub)
    THEN normalize_key(col.top) \o <<"_">> \o normalize_key(col.sub)
    ELSE normalize_key(col.top)

\* the columns whose normalised key is k
ColumnsOfKey(file, k) == {c \in DOMAIN file.cols : KeyOf(file.cols[c]) = k}

\* every label of the header is text
TextLabels(cols) == \A c \in DOMAIN cols : ~cols[c].topInt /\ ~cols[c].subInt

\* C6: flattening (under text labels) returns one flat record per row, in row
\* order; the value under a key is the row's value under the last column, in
\* column order, that normalises to the key: a later column overwrites an
\* earlier one.
C6_FlattenLastWins ==
    (call.op = "get_all_students" /\ sheet.exists /\ TextLabels(sheet.cols)) =>
        /\ ret.ok
        /\ Len(ret.value) = Len(sheet.rows)
        /\ \A r \in Rows(sheet) :
             /\ Keys(ret.value[r]) = {KeyOf(sheet.cols[c]) : c \in DOMAIN sheet.cols}
             /\ Len(ret.value[r]) = Cardinality(Keys(ret.value[r]))
             /\ \A i \in DOMAIN ret.value[r] :
                  ret.value[r][i].v
                     = sheet.rows[r][LastOf(ColumnsOfKey(sheet, ret.value[r][i].k))]

\* three rows, two columns with one key and different values in the second
\* row, where the rows differ from one another
C6_Witness ==
    /\ call.op = "get_all_students"
    /\ Len(sheet.rows) = 3
    /\ sheet.rows[1] # sheet.rows[2] /\ sheet.rows[2] # sheet.rows[3]
    /\ \E c, d \in DOMAIN sheet.cols :
          /\ c < d
          /\ KeyOf(sheet.cols[c]) = KeyOf(sheet.cols[d])
          /\ sheet.rows[2][c] # sheet.rows[2][d]
          /\ ret.ok
          /\ DictGet(ret.value[2], KeyOf(sheet.cols[c])) = sheet.rows[2][d]

---------------------------------------------------------------------------
(* C10: requests served at the same time *)

HasTotalColumn(df) == \E c \in DOMAIN df.cols : df.cols[c].top = sTotal

\* what a finished request returned is what it returns served alone, and the
\* Total column is in no DataFrame but the topper's own and in no record
ConcurrentReadsAgree ==
    \A r \in ReqIds :
        /\ call[r].pc = "done" => ret[r] = ServedAlone(call[r], sheet)
        /\ (call[r].pc \in {"loaded", "done"} /\ call[r].op # "get_platform_topper")
              => ~HasTotalColumn(local[r].value)
        /\ (call[r].pc = "done" /\ call[r].op = "get_all_students")
              => \A i \in DOMAIN ret[r].value : sTotal \notin Keys(ret[r].value[i])

\* C10: under any interleaving of read requests on one snapshot, no request
\* changes the snapshot or what another request sees, each returns what it
\* returns when run alone, and the topper's Total column never shows in
\* another request's records or averages.
C10_ReadsIsolated ==
    /\ [](sheet \in ConcSheets /\ ConcurrentReadsAgree)
    /\ [][sheet' = sheet]_vars

\* a topper holds its DataFrame with the Total column while a list request
\* served beside it has finished
C10_Witness ==
    /\ sheet.rows # <<>>
    /\ \E r, q \in ReqIds :
          /\ call[r].op = "get_platform_topper" /\ call[r].pc = "assigned"
          /\ HasTotalColumn(local[r].value.df)
          /\ call[q].op = "get_all_students" /\ call[q].pc = "done"

=============================================================================
